---------------------------- MODULE Spec2Model ----------------------------
(***************************************************************************)
(* region_counter: counts the alignment records of a BAM file that fall    *)
(* inside the exon regions of a GTF file.                                  *)
(*                                                                         *)
(* The module holds the pure functions of src/src/cigar.rs, regions.rs and *)
(* main.rs as operators, and one specification per part of the program:    *)
(*   SpecCigar    cigar_end_pos and check_cigar_overlap on drawn records   *)
(*   SpecRegions  sort_regions_in_place, compress_regions and              *)
(*                convert_regions_vec_to_hashmap on drawn region lists     *)
(*   SpecFilter   check_read and the policy of count_unmapped_reads on     *)
(*                drawn records and program options                        *)
(*   Spec         main: the region pipeline, count_mapped_reads with one   *)
(*                count_reads task per chromosome on a worker pool, then   *)
(*                count_unmapped_reads                                     *)
(*   SpecEndToEnd the same program on a wider choice of regions and reads  *)
(*                and a pool of one worker                                 *)
(***************************************************************************)
EXTENDS Integers, Sequences, FiniteSets, TLC

VARIABLES
    \* ---- SpecCigar: one call of the cigar functions
    record,           \* the bam Record: [pos, cigar, mapq, flags]
    interval_start,   \* check_cigar_overlap's interval, [start, end)
    interval_end,
    overlap,          \* what check_cigar_overlap returned
    end_pos,          \* what cigar_end_pos returned
    cigar_pc,         \* "input" | "checked" | "done" | "off"
    \* ---- SpecRegions: the region pipeline of main
    raw_regions,      \* the exon rows of the GTF file, in file order
    regions,          \* the Vec<Region> handed from step to step
    regions_map,      \* HashMap<String, Vec<Region>>
    regions_pc,       \* "parsed" | "sorted" | "compressed" | "grouped" | "panic" | "off"
    \* ---- SpecFilter: the read filter
    args,             \* ProgramOptions: [minmapqual, required_flag, filtered_flag]
    read_check_outcome,   \* what check_read returned: "Accept" | "Reject" | "none"
    unmapped_args,    \* the args of count_unmapped_reads after lines 180-184
    filter_pc,        \* "input" | "checked" | "derived" | "off"
    \* ---- Spec: the program
    bam,              \* the BAM file: [header, indexed, records]
    pool_size,        \* threads of the rayon pool
    task,             \* per key of regions_map: the locals of its count_reads call
    fail_order,       \* the chromosomes whose count_reads returned Err, in time order
    main_pc,          \* "regions" | "counting" | "mapped" | "done" | "error" | "panic" | "off"
    unmapped_pc,      \* count_unmapped_reads: "pending" | "done" | "panic" | "off"
    all_reads,        \* count_mapped_reads' Ok value, first CountResult
    exon_reads,       \* count_mapped_reads' Ok value, second CountResult
    unmapped_reads,   \* count_unmapped_reads' Ok value
    main_error        \* the Err main returns

cigarVars   == <<record, interval_start, interval_end, overlap, end_pos, cigar_pc>>
regionVars  == <<raw_regions, regions, regions_map, regions_pc>>
filterVars  == <<args, read_check_outcome, unmapped_args, filter_pc>>
mainVars    == <<bam, pool_size, task, fail_order, main_pc, unmapped_pc, all_reads,
                 exon_reads, unmapped_reads, main_error>>
vars        == <<cigarVars, regionVars, filterVars, mainVars>>

---------------------------------------------------------------------------
(* Bounds of the model.                                                    *)

MaxOps         == 2   \* CIGAR operations per record
MaxLen         == 2   \* length of one CIGAR operation
MaxPos         == 1   \* leftmost position of a record (SpecCigar)
MaxCoord       == 4   \* interval coordinates (SpecCigar)
MaxRegions     == 3   \* raw regions in the GTF file
MaxRegionCoord == 3   \* region coordinates
MaxMapq        == 2   \* mapping quality of a record, and minmapqual
MaxReads       == 2   \* records in the BAM file
MaxWorkers     == 2   \* threads of the rayon pool

---------------------------------------------------------------------------
(* src/src/cigar.rs                                                        *)

\* The CIGAR operation characters of rust_htslib's Cigar::char().
CigarChars == {"M", "=", "X", "D", "N", "I", "S", "H", "P"}

\* One CIGAR operation is <<char, len>>.
CigarOps == CigarChars \X (0 .. MaxLen)

CigarStrings == UNION {[1 .. n -> CigarOps] : n \in 0 .. MaxOps}

\* A mutant of cigar_end_pos_from: insertions advance the position too.
RECURSIVE cigar_end_pos_from_ins(_, _, _)
cigar_end_pos_from_ins(cigar, i, pos) ==
    IF i > Len(cigar) THEN pos
    ELSE LET char == cigar[i][1]
             len  == cigar[i][2]
         IN  IF char \in {"M", "=", "X", "D", "N", "I"}
             THEN cigar_end_pos_from_ins(cigar, i + 1, pos + len)
             ELSE cigar_end_pos_from_ins(cigar, i + 1, pos)

\* cigar_end_pos: the loop over record.cigar(), from operation i with the
\* running position pos.
RECURSIVE cigar_end_pos_from(_, _, _)
cigar_end_pos_from(cigar, i, pos) ==
    IF i > Len(cigar) THEN pos
    ELSE LET char == cigar[i][1]
             len  == cigar[i][2]
         IN  IF char \in {"M", "=", "X", "D", "N"}
             THEN cigar_end_pos_from(cigar, i + 1, pos + len)
             ELSE cigar_end_pos_from(cigar, i + 1, pos)

cigar_end_pos(rec) == cigar_end_pos_from(rec.cigar, 1, rec.pos)

\* A mutant of check_cigar_overlap_from: deletions and reference skips are
\* tested like matches.
RECURSIVE check_cigar_overlap_from_gaps(_, _, _, _, _)
check_cigar_overlap_from_gaps(cigar, i, pos, istart, iend) ==
    IF i > Len(cigar) THEN FALSE
    ELSE LET char == cigar[i][1]
             len  == cigar[i][2]
         IN  IF char \in {"M", "=", "X", "D", "N"}
             THEN IF pos < iend /\ pos + len > istart
                  THEN TRUE
                  ELSE check_cigar_overlap_from_gaps(cigar, i + 1, pos + len, istart, iend)
             ELSE check_cigar_overlap_from_gaps(cigar, i + 1, pos, istart, iend)

\* check_cigar_overlap: the loop over record.cigar(), from operation i with
\* the running position pos.
RECURSIVE check_cigar_overlap_from(_, _, _, _, _)
check_cigar_overlap_from(cigar, i, pos, istart, iend) ==
    IF i > Len(cigar) THEN FALSE
    ELSE LET char == cigar[i][1]
             len  == cigar[i][2]
         IN  IF char \in {"M", "=", "X"}
             THEN IF pos < iend /\ pos + len > istart
                  THEN TRUE
                  ELSE check_cigar_overlap_from(cigar, i + 1, pos + len, istart, iend)
             ELSE IF char \in {"D", "N"}
                  THEN check_cigar_overlap_from(cigar, i + 1, pos + len, istart, iend)
                  ELSE check_cigar_overlap_from(cigar, i + 1, pos, istart, iend)

check_cigar_overlap(rec, istart, iend) ==
    check_cigar_overlap_from(rec.cigar, 1, rec.pos, istart, iend)

---------------------------------------------------------------------------
(* src/src/regions.rs                                                      *)

\* String::cmp on the sequence names of the model: their position in
\* ascending byte order.
SeqNames == <<"chr1", "chr2">>

SeqNameSet == {SeqNames[i] : i \in 1 .. Len(SeqNames)}

SeqNameRank(name) == CHOOSE i \in 1 .. Len(SeqNames) : SeqNames[i] = name

\* struct Region
Regions == {r \in [seqname : SeqNameSet,
                   start   : 0 .. MaxRegionCoord,
                   end     : 0 .. MaxRegionCoord] : r.start <= r.end}

RegionLists == UNION {[1 .. n -> Regions] : n \in 0 .. MaxRegions}

\* The comparator of sort_regions_in_place: a sorts strictly before b.
RegionLess(a, b) ==
    \/ SeqNameRank(a.seqname) < SeqNameRank(b.seqname)
    \/ /\ a.seqname = b.seqname
       /\ \/ a.start < b.start
          \/ a.start = b.start /\ a.end < b.end

\* The comparator of convert_regions_vec_to_hashmap's per-key sort.
StartEndLess(a, b) ==
    \/ a.start < b.start
    \/ a.start = b.start /\ a.end < b.end

\* slice::sort_by is a stable sort: r goes after the last element that does
\* not sort after it.
RECURSIVE InsertRegion(_, _)
InsertRegion(sorted, r) ==
    IF sorted = <<>> THEN <<r>>
    ELSE IF RegionLess(r, sorted[Len(sorted)])
         THEN Append(InsertRegion(SubSeq(sorted, 1, Len(sorted) - 1), r),
                     sorted[Len(sorted)])
         ELSE Append(sorted, r)

RECURSIVE sort_regions_in_place(_)
sort_regions_in_place(rs) ==
    IF rs = <<>> THEN <<>>
    ELSE InsertRegion(sort_regions_in_place(SubSeq(rs, 1, Len(rs) - 1)),
                      rs[Len(rs)])

RECURSIVE InsertByStartEnd(_, _)
InsertByStartEnd(sorted, r) ==
    IF sorted = <<>> THEN <<r>>
    ELSE IF StartEndLess(r, sorted[Len(sorted)])
         THEN Append(InsertByStartEnd(SubSeq(sorted, 1, Len(sorted) - 1), r),
                     sorted[Len(sorted)])
         ELSE Append(sorted, r)

RECURSIVE SortByStartEnd(_)
SortByStartEnd(rs) ==
    IF rs = <<>> THEN <<>>
    ELSE InsertByStartEnd(SortByStartEnd(SubSeq(rs, 1, Len(rs) - 1)), rs[Len(rs)])

\* A mutant of compress_regions_from: touching regions are not merged.
RECURSIVE compress_regions_from_strict(_, _, _, _)
compress_regions_from_strict(rs, i, current, compressed) ==
    IF i > Len(rs) THEN Append(compressed, current)
    ELSE LET region == rs[i]
         IN  IF region.seqname = current.seqname /\ region.start < current.end
             THEN compress_regions_from_strict(rs, i + 1,
                    [current EXCEPT !.end = region.end], compressed)
             ELSE compress_regions_from_strict(rs, i + 1, region,
                                               Append(compressed, current))

\* A mutant of compress_regions_from: a region pushed inside the loop is
\* pushed one position longer.
RECURSIVE compress_regions_from_padded(_, _, _, _)
compress_regions_from_padded(rs, i, current, compressed) ==
    IF i > Len(rs) THEN Append(compressed, current)
    ELSE LET region == rs[i]
         IN  IF region.seqname = current.seqname /\ region.start <= current.end
             THEN compress_regions_from_padded(rs, i + 1,
                    [current EXCEPT !.end = region.end], compressed)
             ELSE compress_regions_from_padded(rs, i + 1, region,
                    Append(compressed, [current EXCEPT !.end = @ + 1]))

\* compress_regions: the loop over regions.iter().skip(1), from element i
\* with the accumulator current and the output so far.
RECURSIVE compress_regions_from(_, _, _, _)
compress_regions_from(rs, i, current, compressed) ==
    IF i > Len(rs) THEN Append(compressed, current)
    ELSE LET region == rs[i]
         IN  IF region.seqname = current.seqname /\ region.start <= current.end
             THEN compress_regions_from(rs, i + 1,
                    [current EXCEPT !.end = region.end], compressed)
             ELSE compress_regions_from(rs, i + 1, region,
                                        Append(compressed, current))

\* compress_regions on a non-empty slice (regions[0] panics on an empty one).
compress_regions(rs) == compress_regions_from(rs, 2, rs[1], <<>>)

\* The regions of rs named name, in the order of rs.
RECURSIVE RegionsNamed(_, _)
RegionsNamed(rs, name) ==
    IF rs = <<>> THEN <<>>
    ELSE LET rest == RegionsNamed(SubSeq(rs, 1, Len(rs) - 1), name)
         IN  IF rs[Len(rs)].seqname = name THEN Append(rest, rs[Len(rs)]) ELSE rest

\* convert_regions_vec_to_hashmap: one key per sequence name that occurs,
\* its regions in input order, then sorted by (start, end).
convert_regions_vec_to_hashmap(rs) ==
    [name \in {rs[i].seqname : i \in 1 .. Len(rs)} |->
        SortByStartEnd(RegionsNamed(rs, name))]

---------------------------------------------------------------------------
(* src/src/main.rs: the read filter                                        *)

FLAGS_ALWAYS_FILTERED == 2816
FLAG_PROPER_PAIR      == 2
FLAG_UNMAPPED         == 4
FLAGS_MAPPING_RELATED == 63

\* u16 & u16
RECURSIVE BitAnd(_, _)
BitAnd(a, b) ==
    IF a = 0 \/ b = 0 THEN 0
    ELSE (a % 2) * (b % 2) + 2 * BitAnd(a \div 2, b \div 2)

\* u16 ^ u16
RECURSIVE BitXor(_, _)
BitXor(a, b) ==
    IF a = 0 THEN b
    ELSE IF b = 0 THEN a
    ELSE ((a + b) % 2) + 2 * BitXor(a \div 2, b \div 2)

\* A mutant of check_read: the filtered flags are not looked at.
check_read_no_filtered(read, a) ==
    IF read.mapq < a.minmapqual THEN "Reject"
    ELSE IF BitAnd(read.flags, a.required_flag) # a.required_flag
         THEN "Reject"
         ELSE "Accept"

\* check_read
check_read(read, a) ==
    IF read.mapq < a.minmapqual THEN "Reject"
    ELSE IF \/ BitAnd(read.flags, a.required_flag) # a.required_flag
            \/ BitAnd(read.flags, a.filtered_flag) # 0
         THEN "Reject"
         ELSE "Accept"

\* count_unmapped_reads, lines 180-184: the clone of args and the four
\* assignments to it, in order.
derive_unmapped_args(a) ==
    LET a1 == [a  EXCEPT !.minmapqual = 0]
        a2 == [a1 EXCEPT !.required_flag =
                  BitXor(a1.required_flag, BitAnd(a1.required_flag, FLAG_PROPER_PAIR))]
        a3 == [a2 EXCEPT !.required_flag = BitXor(a2.required_flag, FLAG_UNMAPPED)]
        a4 == [a3 EXCEPT !.filtered_flag =
                  BitXor(a3.filtered_flag, BitAnd(a3.filtered_flag, FLAGS_MAPPING_RELATED))]
    IN  a4

---------------------------------------------------------------------------
(* src/src/main.rs: count_reads, count_mapped_reads, count_unmapped_reads  *)

\* struct CountResult
CountResult(a, r) == [accepted |-> a, rejected |-> r]

\* IndexedReader::fetch(chrom), then read() until None: the records of the
\* file with that target, in file order ("*" fetches the unmapped ones).
Fetch(b, chrom) == SelectSeq(b.records, LAMBDA r : r.tid = chrom)

\* A mutant of always_filtered: only secondary alignments are excluded.
always_filtered_secondary_only(read) == BitAnd(read.flags, 256) # 0

\* count_reads, line 78, and count_unmapped_reads, line 193: the record has
\* a bit of FLAGS_ALWAYS_FILTERED.
always_filtered(read) == BitAnd(read.flags, FLAGS_ALWAYS_FILTERED) # 0

\* A mutant of advance_region_index: the index moves past the regions that
\* start at or before the read's position.
RECURSIVE advance_region_index_by_start(_, _, _)
advance_region_index_by_start(rs, index, pos) ==
    IF index >= Len(rs) THEN index
    ELSE IF pos >= rs[index + 1].start
         THEN advance_region_index_by_start(rs, index + 1, pos)
         ELSE index

\* count_reads, lines 95-105: the loop that moves current_region_index past
\* the regions that end at or before the read's position.
RECURSIVE advance_region_index(_, _, _)
advance_region_index(rs, index, pos) ==
    IF index >= Len(rs) THEN index
    ELSE IF pos >= rs[index + 1].end
         THEN advance_region_index(rs, index + 1, pos)
         ELSE index

\* A mutant of probe_regions: only the region at current_region_index is
\* probed.
probe_regions_first_only(rs, index, read, endpos) ==
    IF index >= Len(rs) THEN FALSE
    ELSE LET region == rs[index + 1]
         IN  IF region.start > endpos THEN FALSE
             ELSE check_cigar_overlap(read, region.start, region.end)

\* count_reads, lines 110-126: the for loop over current_region_index ..
\* max_index; TRUE when it ends by counting the read.
RECURSIVE probe_regions(_, _, _, _)
probe_regions(rs, index, read, endpos) ==
    IF index >= Len(rs) THEN FALSE
    ELSE LET region == rs[index + 1]
         IN  IF region.start > endpos THEN FALSE
             ELSE IF check_cigar_overlap(read, region.start, region.end)
                  THEN TRUE
                  ELSE probe_regions(rs, index + 1, read, endpos)

\* The anyhow::Error of a count_reads call: what failed, for which chromosome.
NoError == [kind |-> "none", chrom |-> ""]

\* The locals of count_reads as it enters its loop.
count_reads_locals ==
    [pc                   |-> "running",
     nread                |-> 0,
     read                 |-> [tid |-> "", pos |-> 0, cigar |-> <<>>, mapq |-> 0,
                               flags |-> 0, ok |-> TRUE],
     current_region_index |-> 0,
     all_reads_accepted   |-> 0,
     exon_reads_accepted  |-> 0,
     all_reads_rejected   |-> 0,
     exon_reads_rejected  |-> 0,
     error                |-> NoError]

\* A mutant of count_mapped_outcome: only accepted records are tallied.
count_mapped_outcome_accept_only(t, outcome) ==
    IF outcome = "Accept"
    THEN [t EXCEPT !.all_reads_accepted = @ + 1]
    ELSE t

\* count_reads, lines 84-91: the match that adds the record to the mapped
\* tally of its outcome.
count_mapped_outcome(t, outcome) ==
    IF outcome = "Accept"
    THEN [t EXCEPT !.all_reads_accepted = @ + 1]
    ELSE [t EXCEPT !.all_reads_rejected = @ + 1]

\* A mutant of count_exon_outcome: the two arms of the match are swapped.
count_exon_outcome_swapped(t, outcome) ==
    IF outcome = "Accept"
    THEN [t EXCEPT !.exon_reads_rejected = @ + 1]
    ELSE [t EXCEPT !.exon_reads_accepted = @ + 1]

\* count_reads, lines 116-123: the match that adds a record overlapping a
\* region to the exon tally of its outcome.
count_exon_outcome(t, outcome) ==
    IF outcome = "Accept"
    THEN [t EXCEPT !.exon_reads_accepted = @ + 1]
    ELSE [t EXCEPT !.exon_reads_rejected = @ + 1]

\* count_reads, lines 78-127: the Ok arm of the match, on the record r that
\* bam.read decoded into the read buffer.
count_reads_record(t, r, rs, a) ==
    LET t1 == [t EXCEPT !.read = r]
    IN
    IF always_filtered(r) THEN t1
    ELSE
    LET outcome == check_read(r, a)
        t2      == count_mapped_outcome(t1, outcome)
        index   == advance_region_index(rs, t2.current_region_index, r.pos)
        t3      == [t2 EXCEPT !.current_region_index = index]
        counted == /\ index < Len(rs)
                   /\ probe_regions(rs, index, r, cigar_end_pos(r))
    IN
    IF ~counted THEN t3 ELSE count_exon_outcome(t3, outcome)

\* A mutant of count_reads_iteration: a record that failed to decode goes
\* through the Ok arm.
count_reads_iteration_err_as_ok(t, r, rs, a) ==
    count_reads_record([t EXCEPT !.nread = @ + 1], r, rs, a)

\* A mutant of count_reads_iteration: a read that fails leaves the reader
\* where it was, so the loop meets the same record again.
count_reads_iteration_err_stuck(t, r, rs, a) ==
    IF ~r.ok THEN t ELSE count_reads_record([t EXCEPT !.nread = @ + 1], r, rs, a)

\* count_reads, lines 75-131: one iteration of the while loop, on the
\* result r of bam.read(&mut read); the Err arm only prints.
count_reads_iteration(t, r, rs, a) ==
    LET t0 == [t EXCEPT !.nread = @ + 1]
    IN  IF ~r.ok THEN t0 ELSE count_reads_record(t0, r, rs, a)

\* A mutant of SortedChroms: the keys in descending order.
SortedChroms_descending(keys) ==
    LET up == SelectSeq(SeqNames, LAMBDA name : name \in keys)
    IN  [i \in 1 .. Len(up) |-> up[Len(up) + 1 - i]]

\* The keys of a region map in the order of chroms.sort().
SortedChroms(keys) == SelectSeq(SeqNames, LAMBDA name : name \in keys)

\* A mutant of reduce_results: a failed task's result is skipped.
RECURSIVE reduce_results_skip_err(_, _, _, _)
reduce_results_skip_err(results, i, all, exon) ==
    IF i > Len(results) THEN [ok |-> TRUE, all_reads |-> all, exon_reads |-> exon]
    ELSE LET t == results[i]
         IN  IF t.pc = "err"
             THEN reduce_results_skip_err(results, i + 1, all, exon)
             ELSE reduce_results_skip_err(results, i + 1,
                    CountResult(all.accepted + t.all_reads_accepted,
                                all.rejected + t.all_reads_rejected),
                    CountResult(exon.accepted + t.exon_reads_accepted,
                                exon.rejected + t.exon_reads_rejected))

\* A mutant of reduce_results: the loop keeps the last error it meets.
RECURSIVE reduce_results_last_err(_, _, _, _)
reduce_results_last_err(results, i, all, exon) ==
    IF i > Len(results) THEN [ok |-> TRUE, all_reads |-> all, exon_reads |-> exon]
    ELSE LET t    == results[i]
             rest == reduce_results_last_err(results, i + 1,
                       CountResult(all.accepted + t.all_reads_accepted,
                                   all.rejected + t.all_reads_rejected),
                       CountResult(exon.accepted + t.exon_reads_accepted,
                                   exon.rejected + t.exon_reads_rejected))
         IN  IF t.pc = "err" /\ rest.ok
             THEN [ok |-> FALSE, error |-> t.error]
             ELSE rest

\* A mutant of reduce_results: a task's tally replaces the running totals.
RECURSIVE reduce_results_assign(_, _, _, _)
reduce_results_assign(results, i, all, exon) ==
    IF i > Len(results) THEN [ok |-> TRUE, all_reads |-> all, exon_reads |-> exon]
    ELSE LET t == results[i]
         IN  IF t.pc = "err"
             THEN [ok |-> FALSE, error |-> t.error]
             ELSE reduce_results_assign(results, i + 1,
                    CountResult(t.all_reads_accepted, t.all_reads_rejected),
                    CountResult(t.exon_reads_accepted, t.exon_reads_rejected))

\* count_mapped_reads, lines 168-176: the loop over the collected results,
\* from result i with the running totals; `result?` returns the first Err.
RECURSIVE reduce_results(_, _, _, _)
reduce_results(results, i, all, exon) ==
    IF i > Len(results) THEN [ok |-> TRUE, all_reads |-> all, exon_reads |-> exon]
    ELSE LET t == results[i]
         IN  IF t.pc = "err"
             THEN [ok |-> FALSE, error |-> t.error]
             ELSE reduce_results(results, i + 1,
                    CountResult(all.accepted + t.all_reads_accepted,
                                all.rejected + t.all_reads_rejected),
                    CountResult(exon.accepted + t.exon_reads_accepted,
                                exon.rejected + t.exon_reads_rejected))

\* count_unmapped_reads, lines 190-209: the while loop over fetch("*"), from
\* record i with the running counts.
RECURSIVE count_unmapped_loop(_, _, _, _)
count_unmapped_loop(reads, i, a, counts) ==
    IF i > Len(reads) THEN counts
    ELSE LET r == reads[i]
         IN  IF ~r.ok \/ always_filtered(r)
             THEN count_unmapped_loop(reads, i + 1, a, counts)
             ELSE IF check_read(r, a) = "Accept"
                  THEN count_unmapped_loop(reads, i + 1, a,
                         CountResult(counts.accepted + 1, counts.rejected))
                  ELSE count_unmapped_loop(reads, i + 1, a,
                         CountResult(counts.accepted, counts.rejected + 1))

---------------------------------------------------------------------------
(* SpecCigar: cigar_end_pos and check_cigar_overlap applied to every       *)
(* record and interval within the bounds.                                  *)

NoRecord == [pos |-> 0, cigar |-> <<>>, mapq |-> 0, flags |-> 0]

CigarOff ==
    /\ record = NoRecord
    /\ interval_start = 0
    /\ interval_end = 0
    /\ overlap = FALSE
    /\ end_pos = 0
    /\ cigar_pc = "off"

RegionsOff ==
    /\ raw_regions = <<>>
    /\ regions = <<>>
    /\ regions_map = <<>>
    /\ regions_pc = "off"

FilterOff ==
    /\ args = [minmapqual |-> 0, required_flag |-> 0, filtered_flag |-> 0]
    /\ read_check_outcome = "none"
    /\ unmapped_args = args
    /\ filter_pc = "off"

MainOff ==
    /\ bam = [header |-> {}, indexed |-> TRUE, records |-> <<>>]
    /\ pool_size = 1
    /\ task = <<>>
    /\ fail_order = <<>>
    /\ main_pc = "off"
    /\ unmapped_pc = "off"
    /\ all_reads = CountResult(0, 0)
    /\ exon_reads = CountResult(0, 0)
    /\ unmapped_reads = CountResult(0, 0)
    /\ main_error = NoError

InitCigar ==
    /\ record \in [pos : 0 .. MaxPos, cigar : CigarStrings, mapq : {0}, flags : {0}]
    /\ interval_start \in 0 .. MaxCoord
    /\ interval_end \in interval_start .. MaxCoord
    /\ overlap = FALSE
    /\ end_pos = 0
    /\ cigar_pc = "input"
    /\ RegionsOff
    /\ FilterOff
    /\ MainOff

CheckCigarOverlap ==
    /\ cigar_pc = "input"
    /\ overlap' = check_cigar_overlap(record, interval_start, interval_end)
    /\ cigar_pc' = "checked"
    /\ UNCHANGED <<record, interval_start, interval_end, end_pos>>

CigarEndPos ==
    /\ cigar_pc = "checked"
    /\ end_pos' = cigar_end_pos(record)
    /\ cigar_pc' = "done"
    /\ UNCHANGED <<record, interval_start, interval_end, overlap>>

NextCigar ==
    \/ CheckCigarOverlap /\ UNCHANGED <<regionVars, filterVars, mainVars>>
    \/ CigarEndPos /\ UNCHANGED <<regionVars, filterVars, mainVars>>

SpecCigar == InitCigar /\ [][NextCigar]_vars

---------------------------------------------------------------------------
(* SpecRegions: the region pipeline of main (exon_regions' sort, then      *)
(* compress_regions, then convert_regions_vec_to_hashmap) on every raw     *)
(* region list within the bounds.                                          *)

InitRegions ==
    /\ raw_regions \in RegionLists
    /\ regions = raw_regions
    /\ regions_map = <<>>
    /\ regions_pc = "parsed"
    /\ CigarOff
    /\ FilterOff
    /\ MainOff

\* GtfFile::exon_regions: sort_regions_in_place(&mut regions)
SortRegions ==
    /\ regions_pc = "parsed"
    /\ regions' = sort_regions_in_place(regions)
    /\ regions_pc' = "sorted"
    /\ UNCHANGED <<raw_regions, regions_map>>

\* main: let regions = compress_regions(&regions); regions[0] panics on an
\* empty slice.
CompressRegions ==
    /\ regions_pc = "sorted"
    /\ IF regions = <<>>
       THEN regions_pc' = "panic" /\ UNCHANGED regions
       ELSE regions_pc' = "compressed" /\ regions' = compress_regions(regions)
    /\ UNCHANGED <<raw_regions, regions_map>>

\* main: let mut regions_map = convert_regions_vec_to_hashmap(regions)
ConvertRegions ==
    /\ regions_pc = "compressed"
    /\ regions_map' = convert_regions_vec_to_hashmap(regions)
    /\ regions_pc' = "grouped"
    /\ UNCHANGED <<raw_regions, regions>>

NextRegions ==
    \/ SortRegions /\ UNCHANGED <<cigarVars, filterVars, mainVars>>
    \/ CompressRegions /\ UNCHANGED <<cigarVars, filterVars, mainVars>>
    \/ ConvertRegions /\ UNCHANGED <<cigarVars, filterVars, mainVars>>

SpecRegions == InitRegions /\ [][NextRegions]_vars

---------------------------------------------------------------------------
(* SpecFilter: check_read on every record and every ProgramOptions within  *)
(* the bounds, then the policy count_unmapped_reads derives from the same  *)
(* options.                                                                *)

\* The flag bits the filter's inputs are built from: paired, proper pair,
\* unmapped, reverse strand (a mapping-related bit) and duplicate (not one).
FilterFlagBits == {1, 2, 4, 16, 1024}

RECURSIVE SumOf(_)
SumOf(S) == IF S = {} THEN 0 ELSE LET x == CHOOSE y \in S : TRUE IN x + SumOf(S \ {x})

FilterFlagValues == {SumOf(S) : S \in SUBSET FilterFlagBits}

InitFilter ==
    /\ record \in [pos : {0}, cigar : {<<>>}, mapq : 0 .. MaxMapq,
                   flags : FilterFlagValues]
    /\ interval_start = 0
    /\ interval_end = 0
    /\ overlap = FALSE
    /\ end_pos = 0
    /\ cigar_pc = "off"
    /\ args \in [minmapqual : 0 .. MaxMapq, required_flag : FilterFlagValues,
                 filtered_flag : FilterFlagValues]
    /\ read_check_outcome = "none"
    /\ unmapped_args = args
    /\ filter_pc = "input"
    /\ RegionsOff
    /\ MainOff

\* one call check_read(&read, args)
CheckRead ==
    /\ filter_pc = "input"
    /\ read_check_outcome' = check_read(record, args)
    /\ filter_pc' = "checked"
    /\ UNCHANGED <<args, unmapped_args>>

\* count_unmapped_reads, lines 180-184
DeriveUnmappedArgs ==
    /\ filter_pc = "checked"
    /\ unmapped_args' = derive_unmapped_args(args)
    /\ filter_pc' = "derived"
    /\ UNCHANGED <<args, read_check_outcome>>

NextFilter ==
    \/ CheckRead /\ UNCHANGED <<cigarVars, regionVars, mainVars>>
    \/ DeriveUnmappedArgs /\ UNCHANGED <<cigarVars, regionVars, mainVars>>

SpecFilter == InitFilter /\ [][NextFilter]_vars

---------------------------------------------------------------------------
(* Spec: main. The region pipeline runs first, then count_mapped_reads     *)
(* maps count_reads over the sorted keys of the region map on the rayon    *)
(* pool (par_iter().map().collect()), reduces the collected results, and   *)
(* count_unmapped_reads runs last.                                         *)

\* A record of the BAM file.
Rec(tid, pos, cigar, mapq, flags) ==
    [tid |-> tid, pos |-> pos, cigar |-> cigar, mapq |-> mapq, flags |-> flags,
     ok |-> TRUE]

\* A record whose decoding fails: bam.read returns Some(Err(_)).
Corrupt(tid) ==
    [tid |-> tid, pos |-> 0, cigar |-> <<>>, mapq |-> 0, flags |-> 0, ok |-> FALSE]

\* The place of a target in a coordinate-sorted file: the header's targets
\* in order, the unmapped records last.
TidRank(tid) == IF tid = "*" THEN Len(SeqNames) + 1 ELSE SeqNameRank(tid)

\* A coordinate-sorted file: by target, then by position; a record that
\* fails to decode shows no position, the ones around it stay in order.
CoordinateSorted(f) ==
    \A i, j \in 1 .. Len(f) :
        i < j =>
            \/ TidRank(f[i].tid) < TidRank(f[j].tid)
            \/ /\ f[i].tid = f[j].tid
               /\ \/ ~f[i].ok
                  \/ ~f[j].ok
                  \/ f[i].pos <= f[j].pos

\* The coordinate-sorted files of at most MaxReads records of universe.
BamRecordLists(universe) ==
    {f \in UNION {[1 .. n -> universe] : n \in 0 .. MaxReads} : CoordinateSorted(f)}

\* The records Spec draws for one target: accepted or rejected by mapping
\* quality, always excluded (secondary), and one that fails to decode.
MappedSamples(tid) ==
    {Rec(tid, 0, <<<<"M", 1>>>>, 1, 0),
     Rec(tid, 1, <<<<"M", 1>>>>, 0, 0),
     Rec(tid, 1, <<<<"M", 1>>>>, 1, 256),
     Corrupt(tid)}

UnmappedSamples ==
    {Rec("*", 0, <<>>, 0, 4),
     Rec("*", 0, <<>>, 0, 4 + 256)}

ArgsSamples ==
    {[minmapqual |-> 1, required_flag |-> 0, filtered_flag |-> 0],
     [minmapqual |-> 0, required_flag |-> 1, filtered_flag |-> 0]}

\* The raw regions Spec draws: [0, 1) on either sequence, at most one row
\* per sequence name of the model.
SampleRegions == {[seqname |-> name, start |-> 0, end |-> 1] : name \in SeqNameSet}

SampleRegionLists == UNION {[1 .. n -> SampleRegions] : n \in 0 .. Len(SeqNames)}

InitMain(regionLists, files, options, workers) ==
    /\ raw_regions \in regionLists
    /\ regions = raw_regions
    /\ regions_map = <<>>
    /\ regions_pc = "parsed"
    /\ bam \in files
    /\ args \in options
    /\ read_check_outcome = "none"
    /\ unmapped_args = args
    /\ filter_pc = "off"
    /\ pool_size \in workers
    /\ task = <<>>
    /\ fail_order = <<>>
    /\ main_pc = "regions"
    /\ unmapped_pc = "pending"
    /\ all_reads = CountResult(0, 0)
    /\ exon_reads = CountResult(0, 0)
    /\ unmapped_reads = CountResult(0, 0)
    /\ main_error = NoError
    /\ CigarOff

Init ==
    InitMain(SampleRegionLists,
             UNION {[header : {h}, indexed : BOOLEAN,
                     records : BamRecordLists(UnmappedSamples \cup
                                   UNION {MappedSamples(tid) : tid \in h})] :
                    h \in SUBSET SeqNameSet},
             ArgsSamples,
             1 .. MaxWorkers)

\* A mutant of insert_header_chroms: every chromosome of the header is
\* inserted, with or without a list under its name.
insert_header_chroms_overwrite(map, chroms) ==
    [name \in DOMAIN map \cup chroms |-> IF name \in chroms THEN <<>> ELSE map[name]]

\* main, lines 225-229: the loop over the header's chromosomes; one that is
\* not a key of the map is inserted with an empty Vec.
insert_header_chroms(map, chroms) ==
    [name \in DOMAIN map \cup chroms |-> IF name \in DOMAIN map THEN map[name] ELSE <<>>]

\* main, lines 224-229: the header's chromosomes that have no region get an
\* empty list; then count_mapped_reads starts with every key's task pending.
AddHeaderChroms ==
    /\ main_pc = "regions"
    /\ regions_pc = "grouped"
    /\ regions_map' = insert_header_chroms(regions_map, bam.header)
    /\ regions_pc' = "complete"
    /\ task' = [name \in DOMAIN insert_header_chroms(regions_map, bam.header) |->
                   [count_reads_locals EXCEPT !.pc = "pending"]]
    /\ main_pc' = "counting"
    /\ UNCHANGED <<raw_regions, regions, bam, pool_size, fail_order, unmapped_pc,
                   all_reads, exon_reads, unmapped_reads, main_error>>

\* A pool thread takes up the closure of chromosome c: count_reads opens
\* its own IndexedReader and fetches c (lines 68-70); either `?` returns Err.
TaskStart(c) ==
    /\ main_pc = "counting"
    /\ task[c].pc = "pending"
    /\ Cardinality({d \in DOMAIN task : task[d].pc = "running"}) < pool_size
    /\ IF ~bam.indexed
       THEN /\ task' = [task EXCEPT ![c].pc = "err",
                                    ![c].error = [kind |-> "open", chrom |-> c]]
            /\ fail_order' = Append(fail_order, c)
       ELSE IF c \notin bam.header
       THEN /\ task' = [task EXCEPT ![c].pc = "err",
                                    ![c].error = [kind |-> "fetch", chrom |-> c]]
            /\ fail_order' = Append(fail_order, c)
       ELSE /\ task' = [task EXCEPT ![c] = count_reads_locals]
            /\ UNCHANGED fail_order
    /\ UNCHANGED <<regionVars, bam, pool_size, main_pc, unmapped_pc, all_reads,
                   exon_reads, unmapped_reads, main_error>>

\* count_reads of chromosome c: one iteration of its while loop.
TaskRead(c) ==
    /\ main_pc = "counting"
    /\ task[c].pc = "running"
    /\ task[c].nread < Len(Fetch(bam, c))
    /\ task' = [task EXCEPT ![c] =
                   count_reads_iteration(@, Fetch(bam, c)[@.nread + 1],
                                         regions_map[c], args)]
    /\ UNCHANGED <<regionVars, bam, pool_size, fail_order, main_pc, unmapped_pc,
                   all_reads, exon_reads, unmapped_reads, main_error>>

\* count_reads of chromosome c: bam.read returns None and the call returns
\* Ok with its four counts.
TaskFinish(c) ==
    /\ main_pc = "counting"
    /\ task[c].pc = "running"
    /\ task[c].nread = Len(Fetch(bam, c))
    /\ task' = [task EXCEPT ![c].pc = "ok"]
    /\ UNCHANGED <<regionVars, bam, pool_size, fail_order, main_pc, unmapped_pc,
                   all_reads, exon_reads, unmapped_reads, main_error>>

\* A mutant of collect_complete: the collection ends as soon as one closure
\* has returned Err, as a collect into Result<Vec<_>, _> would.
collect_complete_on_first_err(t) ==
    \/ \A c \in DOMAIN t : t[c].pc \in {"ok", "err"}
    \/ \E c \in DOMAIN t : t[c].pc = "err"

\* count_mapped_reads, lines 159-166: par_iter().map().collect() into a
\* Vec<Result<_, _>> returns when the closure of every key has returned,
\* Ok or Err.
collect_complete(t) ==
    \A c \in DOMAIN t : t[c].pc \in {"ok", "err"}

\* count_mapped_reads, lines 166-176: collect() has every task's result, in
\* the order of the sorted keys; the for loop sums them or returns the
\* first Err, which main returns in turn.
JoinAndReduce ==
    /\ main_pc = "counting"
    /\ collect_complete(task)
    /\ LET chroms  == SortedChroms(DOMAIN task)
           results == [i \in 1 .. Len(chroms) |-> task[chroms[i]]]
           reduced == reduce_results(results, 1, CountResult(0, 0), CountResult(0, 0))
       IN  IF reduced.ok
           THEN /\ main_pc' = "mapped"
                /\ all_reads' = reduced.all_reads
                /\ exon_reads' = reduced.exon_reads
                /\ UNCHANGED main_error
           ELSE /\ main_pc' = "error"
                /\ main_error' = reduced.error
                /\ UNCHANGED <<all_reads, exon_reads>>
    /\ UNCHANGED <<regionVars, bam, pool_size, task, fail_order, unmapped_pc,
                   unmapped_reads>>

\* One call of count_unmapped_reads: the options derived on the local
\* clone of line 180 (unmapped_args; the caller's args are behind a shared
\* borrow), its own reader (unwrap panics without an index), the loop over
\* fetch("*").
count_unmapped_reads_call ==
    /\ unmapped_pc = "pending"
    /\ unmapped_args' = derive_unmapped_args(args)
    /\ IF ~bam.indexed
       THEN unmapped_pc' = "panic" /\ UNCHANGED unmapped_reads
       ELSE /\ unmapped_reads' = count_unmapped_loop(Fetch(bam, "*"), 1,
                                    derive_unmapped_args(args), CountResult(0, 0))
            /\ unmapped_pc' = "done"
    /\ UNCHANGED <<args, read_check_outcome, filter_pc, regionVars, bam, pool_size,
                   task, fail_order, all_reads, exon_reads, main_error>>

\* main, line 236: count_unmapped_reads runs once count_mapped_reads has
\* returned Ok.
CountUnmappedReads ==
    /\ main_pc = "mapped"
    /\ count_unmapped_reads_call
    /\ main_pc' = IF bam.indexed THEN "done" ELSE "panic"

Next ==
    \/ main_pc = "regions" /\ SortRegions /\ UNCHANGED <<cigarVars, filterVars, mainVars>>
    \/ main_pc = "regions" /\ CompressRegions /\ UNCHANGED <<cigarVars, filterVars, mainVars>>
    \/ main_pc = "regions" /\ ConvertRegions /\ UNCHANGED <<cigarVars, filterVars, mainVars>>
    \/ AddHeaderChroms /\ UNCHANGED <<cigarVars, filterVars>>
    \/ \E c \in DOMAIN task : TaskStart(c) /\ UNCHANGED <<cigarVars, filterVars>>
    \/ \E c \in DOMAIN task : TaskRead(c) /\ UNCHANGED <<cigarVars, filterVars>>
    \/ \E c \in DOMAIN task : TaskFinish(c) /\ UNCHANGED <<cigarVars, filterVars>>
    \/ JoinAndReduce /\ UNCHANGED <<cigarVars, filterVars>>
    \/ CountUnmappedReads /\ UNCHANGED cigarVars

Spec == Init /\ [][Next]_vars

\* The steps of the pool thread that runs the closure of chromosome c.
TaskStep(c) ==
    /\ c \in DOMAIN task
    /\ TaskStart(c) \/ TaskRead(c) \/ TaskFinish(c)
    /\ UNCHANGED <<cigarVars, filterVars>>

\* The steps of the main thread.
MainStep ==
    \/ main_pc = "regions" /\ SortRegions /\ UNCHANGED <<cigarVars, filterVars, mainVars>>
    \/ main_pc = "regions" /\ CompressRegions /\ UNCHANGED <<cigarVars, filterVars, mainVars>>
    \/ main_pc = "regions" /\ ConvertRegions /\ UNCHANGED <<cigarVars, filterVars, mainVars>>
    \/ AddHeaderChroms /\ UNCHANGED <<cigarVars, filterVars>>
    \/ JoinAndReduce /\ UNCHANGED <<cigarVars, filterVars>>
    \/ CountUnmappedReads /\ UNCHANGED cigarVars

\* The runs of SpecFair: the region lists, files and pool sizes of Spec, with
\* one set of options (the options decide tallies, not which steps are taken).
InitFair ==
    InitMain(SampleRegionLists,
             UNION {[header : {h}, indexed : BOOLEAN,
                     records : BamRecordLists(UnmappedSamples \cup
                                   UNION {MappedSamples(tid) : tid \in h})] :
                    h \in SUBSET SeqNameSet},
             {[minmapqual |-> 1, required_flag |-> 0, filtered_flag |-> 0]},
             1 .. MaxWorkers)

\* main under a fair scheduler: the main thread and every pool thread that
\* has a closure to run keep being scheduled; a closure waiting for a free
\* pool thread is taken up once one is free for good.
SpecFair ==
    /\ InitFair
    /\ [][Next]_vars
    /\ WF_vars(MainStep)
    /\ \A c \in SeqNameSet : WF_vars(TaskStep(c))

\* The records SpecEndToEnd draws for chr1: every position of the region
\* coordinates, a single match or a spliced read, accepted, rejected or
\* always excluded.
EndToEndReads ==
    {Rec("chr1", pos, cigar, mq[1], mq[2]) :
        pos   \in 0 .. MaxRegionCoord,
        cigar \in {<<<<"M", 1>>>>, <<<<"M", 1>>, <<"N", 1>>, <<"M", 1>>>>},
        mq    \in {<<1, 0>>, <<0, 0>>, <<1, 256>>}}

InitEndToEnd ==
    InitMain({rs \in RegionLists : Len(rs) <= Len(SeqNames)},
             [header : {{"chr1"}}, indexed : {TRUE},
              records : BamRecordLists(EndToEndReads)],
             {[minmapqual |-> 1, required_flag |-> 0, filtered_flag |-> 0]},
             {1})

SpecEndToEnd == InitEndToEnd /\ [][Next]_vars

---------------------------------------------------------------------------
(* SpecScan: count_mapped_reads and count_unmapped_reads on one chromosome *)
(* from the point where the region map is complete, for every list the     *)
(* region pipeline can leave under a key and every coordinate-sorted file  *)
(* of the records below.                                                   *)

\* The lists sort, compress_regions and the grouping leave under the key
\* name: sorted by start, each region starting after the end of the one
\* before it. compress_regions returns such a list unchanged.
NormalizedLists(name) ==
    {rs \in UNION {[1 .. n -> {r \in Regions : r.seqname = name}] : n \in 1 .. MaxRegions} :
        \A i \in 1 .. Len(rs) - 1 : rs[i + 1].start > rs[i].end}

\* The bits of FLAGS_ALWAYS_FILTERED: secondary, QC fail, supplementary.
AlwaysFilteredBits == {256, 512, 2048}

\* The records SpecScan draws: on chr1 at every position of the region
\* coordinates a single match or a spliced read of mapping quality 1 (which
\* one of ArgsSamples accepts and the other rejects), at the first position
\* a single match of mapping quality 0, at the last position a record with
\* one always-filtered bit, and a record that fails to decode; unmapped
\* records with and without an always-filtered bit, and one that fails to
\* decode.
ScanReads ==
    {Rec("chr1", pos, cigar, 1, 0) :
        pos \in 0 .. MaxRegionCoord,
        cigar \in {<<<<"M", 1>>>>, <<<<"M", 1>>, <<"N", 1>>, <<"M", 1>>>>}}
    \cup {Rec("chr1", 0, <<<<"M", 1>>>>, 0, 0)}
    \cup {Rec("chr1", MaxRegionCoord, <<<<"M", 1>>>>, 1, bit) : bit \in AlwaysFilteredBits}
    \cup {Corrupt("chr1")}
    \cup {Rec("*", 0, <<>>, 0, 4), Rec("*", 0, <<>>, 0, 4 + 512), Corrupt("*")}

InitScan ==
    /\ raw_regions \in NormalizedLists("chr1")
    /\ regions = raw_regions
    /\ regions_map = [name \in {"chr1"} |-> raw_regions]
    /\ regions_pc = "complete"
    /\ bam \in [header : {{"chr1"}}, indexed : {TRUE},
                 records : BamRecordLists(ScanReads)]
    /\ args \in ArgsSamples
    /\ read_check_outcome = "none"
    /\ unmapped_args = args
    /\ filter_pc = "off"
    /\ pool_size = 1
    /\ task = [name \in {"chr1"} |-> [count_reads_locals EXCEPT !.pc = "pending"]]
    /\ fail_order = <<>>
    /\ main_pc = "counting"
    /\ unmapped_pc = "pending"
    /\ all_reads = CountResult(0, 0)
    /\ exon_reads = CountResult(0, 0)
    /\ unmapped_reads = CountResult(0, 0)
    /\ main_error = NoError
    /\ CigarOff

NextScan ==
    \/ \E c \in DOMAIN task : TaskStart(c) /\ UNCHANGED <<cigarVars, filterVars>>
    \/ \E c \in DOMAIN task : TaskRead(c) /\ UNCHANGED <<cigarVars, filterVars>>
    \/ \E c \in DOMAIN task : TaskFinish(c) /\ UNCHANGED <<cigarVars, filterVars>>
    \/ JoinAndReduce /\ UNCHANGED <<cigarVars, filterVars>>
    \/ CountUnmappedReads /\ UNCHANGED cigarVars

SpecScan == InitScan /\ [][NextScan]_vars

---------------------------------------------------------------------------
(* Properties of SpecCigar.                                                *)

MatchChars == {"M", "=", "X"}
GapChars   == {"D", "N"}

\* The reference position at which operation i of cigar starts: the record's
\* position plus the lengths of the reference-consuming operations before i.
RECURSIVE RefConsumedBefore(_, _)
RefConsumedBefore(cigar, i) ==
    IF i <= 1 THEN 0
    ELSE RefConsumedBefore(cigar, i - 1)
         + (IF cigar[i - 1][1] \in MatchChars \cup GapChars THEN cigar[i - 1][2] ELSE 0)

OpStart(rec, i) == rec.pos + RefConsumedBefore(rec.cigar, i)
OpEnd(rec, i)   == OpStart(rec, i) + rec.cigar[i][2]

\* Some reference position lies in [istart, iend) and in a match-type
\* segment of rec.
SharesPosition(rec, istart, iend) ==
    \E i \in 1 .. Len(rec.cigar) :
        /\ rec.cigar[i][1] \in MatchChars
        /\ \E p \in istart .. (iend - 1) : OpStart(rec, i) <= p /\ p < OpEnd(rec, i)

\* C3: check_cigar_overlap returns true exactly when some reference position
\* of the half-open interval lies in a match-type segment of the record,
\* zero-length operations and empty intervals included.
C3_OverlapIsExact ==
    cigar_pc \in {"checked", "done"} =>
        (overlap <=> SharesPosition(record, interval_start, interval_end))

\* The interval lies inside the span of one deletion or reference skip.
InsideGap(rec, istart, iend) ==
    \E i \in 1 .. Len(rec.cigar) :
        /\ rec.cigar[i][1] \in GapChars
        /\ OpStart(rec, i) <= istart
        /\ iend <= OpEnd(rec, i)

\* Some match-type operation passes the test at the position it starts at.
MatchSegmentMeets(rec, istart, iend) ==
    \E i \in 1 .. Len(rec.cigar) :
        /\ rec.cigar[i][1] \in MatchChars
        /\ OpStart(rec, i) < iend
        /\ OpEnd(rec, i) > istart

NonConsumingChars == {"I", "S", "H", "P"}

\* The sum of f over S.
RECURSIVE SumOver(_, _)
SumOver(S, f) ==
    IF S = {} THEN 0
    ELSE LET x == CHOOSE y \in S : TRUE IN f[x] + SumOver(S \ {x}, f)

\* The summed lengths of the reference-consuming operations of cigar.
ReferenceLength(cigar) ==
    SumOver({i \in 1 .. Len(cigar) : cigar[i][1] \in MatchChars \cup GapChars},
            [i \in 1 .. Len(cigar) |-> cigar[i][2]])

\* cigar without its insertion, clip and padding operations.
WithoutNonConsuming(cigar) == SelectSeq(cigar, LAMBDA op : op[1] \notin NonConsumingChars)

\* C11: cigar_end_pos returns the record's position plus the summed lengths
\* of its M, =, X, D and N operations; the insertion, clip and padding
\* operations add nothing, so the record without them has the same end.
C11_EndIsPositionPlusConsumed ==
    cigar_pc = "done" =>
        /\ end_pos = record.pos + ReferenceLength(record.cigar)
        /\ end_pos = cigar_end_pos([record EXCEPT !.cigar = WithoutNonConsuming(@)])

\* C11's case: a record that mixes a reference-consuming operation and a
\* non-consuming one, both of positive length, and the call has returned.
C11_Witness ==
    /\ cigar_pc = "done"
    /\ \E i, j \in 1 .. Len(record.cigar) :
          /\ record.cigar[i][1] \in GapChars /\ record.cigar[i][2] > 0
          /\ record.cigar[j][1] \in NonConsumingChars /\ record.cigar[j][2] > 0
    /\ end_pos > record.pos

---------------------------------------------------------------------------
(* Properties of SpecRegions.                                              *)

\* The (sequence name, position) pairs a region list covers.
Covered(rs) ==
    {<<rs[i].seqname, p>> : i \in 1 .. Len(rs), p \in 0 .. MaxRegionCoord}
    \cap UNION {{<<rs[i].seqname, p>> : p \in rs[i].start .. (rs[i].end - 1)} :
                i \in 1 .. Len(rs)}

\* C2: the output of compress_regions covers exactly the (sequence name,
\* position) pairs its sorted input covers.
C2_MergeKeepsCoverage ==
    regions_pc \in {"compressed", "grouped"} => Covered(regions) = Covered(raw_regions)

\* C10: after sort, merge and grouping every list of the map is sorted by
\* start, each region has start <= end, and consecutive regions satisfy
\* next.start > previous.end.
C10_NormalizedLists ==
    regions_pc = "grouped" =>
        \A name \in DOMAIN regions_map :
            LET list == regions_map[name]
            IN  \A i \in 1 .. Len(list) :
                    /\ list[i].seqname = name
                    /\ list[i].start <= list[i].end
                    /\ i < Len(list) =>
                          /\ list[i].start <= list[i + 1].start
                          /\ list[i + 1].start > list[i].end

\* C10's case: raw regions were merged and a grouped list still holds two
\* regions.
C10_Witness ==
    /\ regions_pc = "grouped"
    /\ Len(regions) < Len(raw_regions)
    /\ \E name \in DOMAIN regions_map : Len(regions_map[name]) >= 2

\* C12: compress_regions on an empty list comes back to main with an
\* InvalidInput error: it does not panic and no region list comes out of it.
C12_EmptyMergeIsInvalidInput ==
    (raw_regions = <<>> /\ regions_pc \notin {"parsed", "sorted", "off"}) =>
        regions_pc \notin {"panic", "compressed", "grouped", "complete"}

\* C13: compress_regions applied to its own output returns that output,
\* region for region.
C13_MergeIsIdempotent ==
    regions_pc \in {"compressed", "grouped"} => compress_regions(regions) = regions

\* C13's case: the first merge folded raw regions together and its output
\* still holds two regions of one sequence name.
C13_Witness ==
    /\ regions_pc = "compressed"
    /\ Len(regions) < Len(raw_regions)
    /\ \E i \in 1 .. Len(regions) - 1 : regions[i].seqname = regions[i + 1].seqname

---------------------------------------------------------------------------
(* Properties of SpecFilter.                                               *)

\* The single-bit masks of a u16.
Bits16 == {2 ^ k : k \in 0 .. 15}

HasBit(x, b) == (x \div b) % 2 = 1

\* C5: check_read returns Accept exactly when the mapping quality reaches
\* minmapqual, every required bit is set in the flags and no filtered bit
\* is, and Reject otherwise.
C5_ClassifyMatchesPolicy ==
    filter_pc \in {"checked", "derived"} =>
        /\ read_check_outcome \in {"Accept", "Reject"}
        /\ read_check_outcome = "Accept" <=>
              /\ record.mapq >= args.minmapqual
              /\ \A b \in Bits16 : HasBit(args.required_flag, b) => HasBit(record.flags, b)
              /\ \A b \in Bits16 : ~(HasBit(args.filtered_flag, b) /\ HasBit(record.flags, b))

\* C5's case: a record accepted under options that constrain all three.
C5_Witness ==
    /\ filter_pc = "checked"
    /\ read_check_outcome = "Accept"
    /\ args.minmapqual > 0
    /\ args.required_flag # 0
    /\ args.filtered_flag # 0

\* C9: the derived policy has minmapqual 0, the proper-pair bit cleared and
\* the unmapped bit set in required_flag, the mapping-related bits cleared
\* in filtered_flag, and every other bit as in the base options.
C9_UnmappedPolicy ==
    filter_pc = "derived" =>
        /\ unmapped_args.minmapqual = 0
        /\ ~HasBit(unmapped_args.required_flag, FLAG_PROPER_PAIR)
        /\ HasBit(unmapped_args.required_flag, FLAG_UNMAPPED)
        /\ \A b \in Bits16 \ {FLAG_PROPER_PAIR, FLAG_UNMAPPED} :
              HasBit(unmapped_args.required_flag, b) <=> HasBit(args.required_flag, b)
        /\ \A b \in Bits16 :
              HasBit(unmapped_args.filtered_flag, b) <=>
                  (HasBit(args.filtered_flag, b) /\ ~HasBit(FLAGS_MAPPING_RELATED, b))

---------------------------------------------------------------------------
(* Properties of Spec and SpecEndToEnd.                                    *)

\* The record passes the always-exclude filter.
Counted(r) == r.ok /\ BitAnd(r.flags, FLAGS_ALWAYS_FILTERED) = 0

\* Some match-type segment of r shares a position with a raw region of chrom.
MeetsRawRegion(r, chrom) ==
    \E k \in 1 .. Len(raw_regions) :
        /\ raw_regions[k].seqname = chrom
        /\ SharesPosition(r, raw_regions[k].start, raw_regions[k].end)

\* How many of the first n records of reads satisfy P.
HowMany(reads, n, P(_)) == Cardinality({i \in 1 .. n : P(reads[i])})

\* C1: end to end, every record that passes the always-exclude filter is
\* counted once in the mapped tally of its class, and once in the exon tally
\* of its class exactly when a match-type segment of it shares a position
\* with a raw region of its chromosome.
C1_EndToEndCounts ==
    \A c \in DOMAIN task :
        task[c].pc \in {"running", "ok"} =>
            LET reads == Fetch(bam, c)
                n     == task[c].nread
                Acc(r) == Counted(r) /\ check_read(r, args) = "Accept"
                Rej(r) == Counted(r) /\ check_read(r, args) = "Reject"
                AccExon(r) == Acc(r) /\ MeetsRawRegion(r, c)
                RejExon(r) == Rej(r) /\ MeetsRawRegion(r, c)
            IN  /\ task[c].all_reads_accepted = HowMany(reads, n, Acc)
                /\ task[c].all_reads_rejected = HowMany(reads, n, Rej)
                /\ task[c].exon_reads_accepted = HowMany(reads, n, AccExon)
                /\ task[c].exon_reads_rejected = HowMany(reads, n, RejExon)

\* count_reads of reads run alone, from record i with the locals t.
RECURSIVE ScanAlone(_, _, _, _, _)
ScanAlone(reads, i, t, rs, a) ==
    IF i > Len(reads) THEN [t EXCEPT !.pc = "ok"]
    ELSE ScanAlone(reads, i + 1, count_reads_iteration(t, reads[i], rs, a), rs, a)

Alone(c) == ScanAlone(Fetch(bam, c), 1, count_reads_locals, regions_map[c], args)

\* C6: a task that ends Ok ends with the counts of the same scan run alone,
\* whatever ran between its steps, and the tally count_mapped_reads returns
\* is the field-wise sum of those counts over the chromosomes.
C6_AggregateIsSumOfScansAlone ==
    /\ \A c \in DOMAIN task : task[c].pc = "ok" => task[c] = Alone(c)
    /\ main_pc \in {"mapped", "done", "panic"} =>
          LET AllAcc  == [c \in DOMAIN task |-> Alone(c).all_reads_accepted]
              AllRej  == [c \in DOMAIN task |-> Alone(c).all_reads_rejected]
              ExonAcc == [c \in DOMAIN task |-> Alone(c).exon_reads_accepted]
              ExonRej == [c \in DOMAIN task |-> Alone(c).exon_reads_rejected]
          IN  /\ all_reads = CountResult(SumOver(DOMAIN task, AllAcc),
                                         SumOver(DOMAIN task, AllRej))
              /\ exon_reads = CountResult(SumOver(DOMAIN task, ExonAcc),
                                          SumOver(DOMAIN task, ExonRej))

\* C6's case: a pool of several threads, two chromosomes that each counted
\* a record, and a tally returned.
C6_Witness ==
    /\ main_pc = "mapped"
    /\ pool_size > 1
    /\ Cardinality({c \in DOMAIN task :
                       task[c].all_reads_accepted + task[c].all_reads_rejected > 0}) >= 2
    /\ exon_reads.accepted > 0

\* C7: a tally is returned only when every task ended Ok; once the tasks
\* are joined with one of them failed, main ends with an error and no tally.
C7_NoPartialSuccess ==
    /\ main_pc \in {"mapped", "done", "panic"} =>
          \A c \in DOMAIN task : task[c].pc = "ok"
    /\ (main_pc \notin {"regions", "counting"} /\ \E c \in DOMAIN task : task[c].pc = "err") =>
          /\ main_pc = "error"
          /\ main_error # NoError
          /\ all_reads = CountResult(0, 0)
          /\ exon_reads = CountResult(0, 0)
          /\ unmapped_reads = CountResult(0, 0)

\* C7's case: the aggregation failed although a sibling task had counted
\* records and ended Ok.
C7_Witness ==
    /\ main_pc = "error"
    /\ \E c \in DOMAIN task : task[c].pc = "ok" /\ task[c].all_reads_accepted > 0

\* C8 as claimed: the error surfaced is that of the task that failed first
\* in time.
C8_EarliestFailureSurfaces ==
    main_pc = "error" => main_error.chrom = fail_order[1]

\* C8 as amended: the error surfaced is that of the failed task whose
\* chromosome comes first in the sorted key order, whatever the order in
\* which the tasks failed.
C8_FirstFailureInKeyOrderSurfaces ==
    main_pc = "error" =>
        LET failed == {c \in DOMAIN task : task[c].pc = "err"}
        IN  /\ failed # {}
            /\ main_error.chrom \in failed
            /\ main_error = task[main_error.chrom].error
            /\ \A c \in failed : SeqNameRank(main_error.chrom) <= SeqNameRank(c)

\* C8's case: two tasks failed, and the one that failed first in time is not
\* the one whose error is surfaced.
C8_Witness ==
    /\ main_pc = "error"
    /\ Len(fail_order) >= 2
    /\ fail_order[1] # main_error.chrom

\* Once the header's chromosomes are added, the keys of the map are the
\* sequence names of the merged regions and the chromosomes of the header,
\* the former with the lists the grouping gave them, the others with an
\* empty list; there is one task per key, all of them ended once
\* count_mapped_reads has returned, and the scan of a key with an empty list
\* tallies every decoded, not always-excluded record as mapped and none as
\* exon.
HeaderChromsCovered ==
    regions_pc = "complete" =>
        LET grouped == convert_regions_vec_to_hashmap(regions)
        IN  /\ bam.header \subseteq DOMAIN regions_map
            /\ DOMAIN regions_map = DOMAIN grouped \cup bam.header
            /\ \A c \in DOMAIN grouped : regions_map[c] = grouped[c]
            /\ \A c \in bam.header \ DOMAIN grouped : regions_map[c] = <<>>
            /\ DOMAIN task = DOMAIN regions_map
            /\ main_pc \in {"mapped", "done", "error", "panic"} =>
                  \A c \in DOMAIN task : task[c].pc \in {"ok", "err"}
            /\ \A c \in DOMAIN task :
                  (regions_map[c] = <<>> /\ task[c].pc \in {"running", "ok"}) =>
                      /\ task[c].exon_reads_accepted = 0
                      /\ task[c].exon_reads_rejected = 0
                      /\ task[c].all_reads_accepted + task[c].all_reads_rejected
                            = HowMany(Fetch(bam, c), task[c].nread, Counted)
                      /\ task[c].pc = "ok" => task[c].nread = Len(Fetch(bam, c))

\* A key's scan is started once: a task that has started is not started
\* again, does not go back in its stream, and one that has ended stays as
\* it ended.
OneScanPerKey ==
    \A c \in DOMAIN task :
        /\ c \in DOMAIN task'
        /\ task[c].pc # "pending" =>
              /\ task'[c].pc # "pending"
              /\ task'[c].nread >= task[c].nread
        /\ task[c].pc \in {"ok", "err"} => task'[c] = task[c]

\* C20: every chromosome of the header is a key of the region map, with an
\* empty list when it has no region and its grouped list otherwise; the
\* aggregation runs one scan per key; the scan of an empty list counts
\* every non-excluded record as mapped and none as exon.
C20_UniformChromosomeCoverage ==
    /\ []HeaderChromsCovered
    /\ [][OneScanPerKey]_vars

\* C20's case: the header names a chromosome with regions and one without;
\* the scan of the one without has ended Ok with a record in its mapped
\* tally.
C20_Witness ==
    /\ regions_pc = "complete"
    /\ \E c, d \in bam.header :
          /\ regions_map[c] = <<>>
          /\ regions_map[d] # <<>>
          /\ task[c].pc = "ok"
          /\ task[c].all_reads_accepted + task[c].all_reads_rejected >= 1

\* main can take the step that returns from count_mapped_reads.
AggregateCanReturn == ENABLED (JoinAndReduce /\ UNCHANGED <<cigarVars, filterVars>>)

\* A task has returned Err and count_mapped_reads has not returned yet.
FailurePending ==
    /\ main_pc = "counting"
    /\ \E c \in DOMAIN task : task[c].pc = "err"

\* C21 as claimed: once a task has failed, count_mapped_reads can return the
\* error at once, whether or not its sibling scans have ended.
C21_FailurePropagatesImmediately ==
    FailurePending => AggregateCanReturn

\* C21 as amended: once a task has failed, count_mapped_reads returns only
\* when every sibling scan has ended, Ok or Err: it cannot return while one
\* of them is pending or running, it can as soon as all have ended, and the
\* error main ends with is surfaced with no task left pending or running.
C21_FailureSurfacesAfterJoin ==
    /\ FailurePending =>
          (AggregateCanReturn <=> \A c \in DOMAIN task : task[c].pc \in {"ok", "err"})
    /\ main_pc = "error" =>
          /\ main_error # NoError
          /\ \A c \in DOMAIN task : task[c].pc \in {"ok", "err"}

\* C21's case: a task has failed while a sibling scan is in the middle of
\* its records and count_mapped_reads has not returned.
C21_Witness ==
    /\ FailurePending
    /\ \E d \in DOMAIN task :
          /\ task[d].pc = "running"
          /\ task[d].nread >= 1
          /\ task[d].nread < Len(Fetch(bam, d))

\* The keys count_mapped_reads is called with, from the inputs alone: the
\* sequence names of the GTF rows and the chromosomes of the BAM header.
InputKeys == {raw_regions[i].seqname : i \in 1 .. Len(raw_regions)} \cup bam.header

\* The keys whose count_reads fails, from the inputs alone: every key when
\* the file has no index, otherwise the keys the header does not name.
InputFailingKeys == IF bam.indexed THEN InputKeys \ bam.header ELSE InputKeys

\* The error of the failing key that sorts first.
InputError ==
    [kind  |-> IF bam.indexed THEN "fetch" ELSE "open",
     chrom |-> CHOOSE c \in InputFailingKeys :
                   \A d \in InputFailingKeys : SeqNameRank(c) <= SeqNameRank(d)]

\* C24: whether main ends with an error of count_mapped_reads, and which
\* one, is decided by the inputs (GTF rows, header, index), not by the size
\* of the pool or the order in which the tasks ran and failed: the error is
\* that of the failing chromosome whose name sorts first, and there is one
\* exactly when some chromosome fails.
C24_ErrorIsFunctionOfInputs ==
    /\ main_pc = "error" =>
          /\ InputFailingKeys # {}
          /\ main_error = InputError
    /\ main_pc \in {"mapped", "done", "panic"} => InputFailingKeys = {}

\* C24's case: on a pool of two threads the chromosome that sorts last
\* failed first in time, and main has ended with the error.
C24_Witness ==
    /\ main_pc = "error"
    /\ pool_size = 2
    /\ Len(fail_order) = 2
    /\ SeqNameRank(fail_order[1]) > SeqNameRank(fail_order[2])
    /\ main_error.chrom = fail_order[2]

---------------------------------------------------------------------------
(* Properties of SpecFair.                                                 *)

\* A started scan does not wait: whatever its siblings are doing, its next
\* iteration or its return can be taken.
RunningScanCanStep ==
    \A c \in DOMAIN task :
        (main_pc = "counting" /\ task[c].pc = "running") => ENABLED TaskStep(c)

\* A step of a started scan reads the next record of its source or, with
\* the source exhausted, returns Ok; a scan that failed did so at open or
\* fetch, before its first record; a scan that has ended reads no more.
EachRecordOnce ==
    \A c \in DOMAIN task :
        /\ c \in DOMAIN task'
        /\ \/ task'[c] = task[c]
           \/ /\ task[c].pc = "pending"
              /\ task'[c].pc \in {"running", "err"}
              /\ task'[c].nread = 0
           \/ /\ task[c].pc = "running"
              /\ task[c].nread < Len(Fetch(bam, c))
              /\ task'[c].pc = "running"
              /\ task'[c].nread = task[c].nread + 1
           \/ /\ task[c].pc = "running"
              /\ task[c].nread = Len(Fetch(bam, c))
              /\ task'[c].pc = "ok"
              /\ task'[c].nread = task[c].nread

\* The scan of chromosome c, once started, ends Ok with every record of its
\* source read.
ScanEnds(c) ==
    (c \in DOMAIN task /\ task[c].pc = "running")
        ~> (c \in DOMAIN task /\ task[c].pc = "ok" /\ task[c].nread = Len(Fetch(bam, c)))

\* count_mapped_reads, once called, returns a tally or an error.
AggregateReturns ==
    (main_pc = "counting") ~> (main_pc \in {"mapped", "error"})

\* C22: on a finite file every started scan reads each record of its source
\* once, in order, and then ends (Ok at exhaustion, Err only at open or
\* fetch); a started scan never waits on a sibling; under fair scheduling
\* every started scan ends and count_mapped_reads returns a tally or an
\* error, whatever the interleaving and the size of the pool.
C22_ScansTerminate ==
    /\ [][EachRecordOnce]_vars
    /\ []RunningScanCanStep
    /\ \A c \in SeqNameSet : ScanEnds(c)
    /\ AggregateReturns

\* C22's case: two scans shared a single pool thread, each read the records
\* of its source to the end, and count_mapped_reads has returned.
C22_Witness ==
    /\ main_pc = "mapped"
    /\ pool_size = 1
    /\ Cardinality(DOMAIN task) = 2
    /\ \A c \in DOMAIN task :
          /\ task[c].pc = "ok"
          /\ task[c].nread >= 1
          /\ task[c].nread = Len(Fetch(bam, c))

---------------------------------------------------------------------------
(* Properties of SpecScan.                                                 *)

\* check_cigar_overlap holds of r and some region of the whole list rs.
OverlapsSomeRegion(r, rs) ==
    \E k \in 1 .. Len(rs) : check_cigar_overlap(r, rs[k].start, rs[k].end)

\* The records the scan of chromosome c has been through.
ScannedSoFar(c) == SubSeq(Fetch(bam, c), 1, task[c].nread)

\* C15: after any number of records the exon tally of each class is the
\* number of records read so far that pass the always-exclude filter, fall
\* in the class and overlap (by check_cigar_overlap) at least one region of
\* the whole list: one per such record, none for the others, whatever the
\* cursor skipped and wherever the probe stopped.
C15_SweepIsBruteForce ==
    \A c \in DOMAIN task :
        task[c].pc \in {"running", "ok"} =>
            LET reads == Fetch(bam, c)
                n     == task[c].nread
                rs    == regions_map[c]
                AccExon(r) == /\ Counted(r)
                              /\ check_read(r, args) = "Accept"
                              /\ OverlapsSomeRegion(r, rs)
                RejExon(r) == /\ Counted(r)
                              /\ check_read(r, args) = "Reject"
                              /\ OverlapsSomeRegion(r, rs)
            IN  /\ task[c].exon_reads_accepted = HowMany(reads, n, AccExon)
                /\ task[c].exon_reads_rejected = HowMany(reads, n, RejExon)

\* C15's case: the second record of the stream is a spliced read; the
\* cursor has skipped a region, the first region probed lies in the read's
\* gap, a later one overlaps it, and the read is the one record counted.
C15_Witness ==
    \E c \in DOMAIN task :
        LET t  == task[c]
            rs == regions_map[c]
        IN  /\ t.pc = "running"
            /\ t.nread = 2
            /\ Counted(t.read)
            /\ t.current_region_index >= 1
            /\ t.current_region_index < Len(rs)
            /\ ~check_cigar_overlap(t.read, rs[t.current_region_index + 1].start,
                                    rs[t.current_region_index + 1].end)
            /\ \E k \in t.current_region_index + 2 .. Len(rs) :
                  check_cigar_overlap(t.read, rs[k].start, rs[k].end)
            /\ t.exon_reads_accepted + t.exon_reads_rejected = 1

\* The positions of the records of reads that went through the cursor
\* loop: decoded and not always excluded.
ProcessedPositions(reads) ==
    {reads[i].pos : i \in {j \in 1 .. Len(reads) : Counted(reads[j])}}

\* In every state of a scan the cursor is within 0 .. number of regions,
\* every region before it ends at or before the position of the last
\* processed record, and it rests on the first region that ends after that
\* position however far the probe went.
CursorInRange ==
    \A c \in DOMAIN task :
        LET cursor == task[c].current_region_index
            rs     == regions_map[c]
            seen   == ProcessedPositions(ScannedSoFar(c))
        IN  /\ 0 <= cursor
            /\ cursor <= Len(rs)
            /\ cursor > 0 => seen # {}
            /\ \A i \in 1 .. cursor : \A p \in seen : (\A q \in seen : q <= p) => rs[i].end <= p
            /\ (cursor < Len(rs)) => \A p \in seen : rs[cursor + 1].end > p

\* In every step of a scan the cursor does not decrease, and it moves only
\* on a processed record, past regions that end at or before that record's
\* position.
CursorMovesForward ==
    \A c \in DOMAIN task :
        (c \in DOMAIN task' /\ task[c].pc = "running") =>
            LET cursor == task[c].current_region_index
                after  == task'[c].current_region_index
                rs     == regions_map[c]
            IN  /\ after >= cursor
                /\ after > cursor =>
                      /\ task'[c].nread = task[c].nread + 1
                      /\ LET r == Fetch(bam, c)[task'[c].nread]
                         IN  /\ Counted(r)
                             /\ \A i \in cursor + 1 .. after : rs[i].end <= r.pos

\* C16: during a scan the cursor never decreases, stays within 0 .. number
\* of regions, moves past a region only when the region ends at or before
\* the current record's position, and is not moved by the probe.
C16_CursorInvariant ==
    /\ []CursorInRange
    /\ [][CursorMovesForward]_vars

\* C16's case: the cursor has moved past two regions, regions are left,
\* and a record was counted in the exon tally by the probe.
C16_Witness ==
    \E c \in DOMAIN task :
        /\ task[c].pc = "running"
        /\ task[c].current_region_index >= 2
        /\ task[c].current_region_index < Len(regions_map[c])
        /\ task[c].exon_reads_accepted + task[c].exon_reads_rejected >= 1

\* The record was decoded and has the secondary, QC-fail or supplementary
\* bit.
ExcludedByFlags(r) == r.ok /\ \E b \in AlwaysFilteredBits : HasBit(r.flags, b)

\* The record the scan of c reads in the step, when the step reads one.
ReadsRecord(c) ==
    /\ c \in DOMAIN task'
    /\ task[c].pc = "running"
    /\ task'[c].nread = task[c].nread + 1

RecordRead(c) == Fetch(bam, c)[task'[c].nread]

\* A step of a scan that reads an always-excluded record leaves the four
\* tallies of the scan and its cursor as they were.
ExcludedRecordChangesNothing ==
    \A c \in DOMAIN task :
        (ReadsRecord(c) /\ ExcludedByFlags(RecordRead(c))) =>
            /\ task'[c].all_reads_accepted = task[c].all_reads_accepted
            /\ task'[c].all_reads_rejected = task[c].all_reads_rejected
            /\ task'[c].exon_reads_accepted = task[c].exon_reads_accepted
            /\ task'[c].exon_reads_rejected = task[c].exon_reads_rejected
            /\ task'[c].current_region_index = task[c].current_region_index

\* The unmapped tally is the tally of the unmapped records without the
\* always-excluded ones.
UnmappedTallyWithoutExcluded ==
    unmapped_pc = "done" =>
        unmapped_reads =
            count_unmapped_loop(SelectSeq(Fetch(bam, "*"), LAMBDA r : ~ExcludedByFlags(r)),
                                1, derive_unmapped_args(args), CountResult(0, 0))

\* C17: a record with the secondary, QC-fail or supplementary bit changes no
\* tally of the scan that reads it and does not move its cursor, and the
\* unmapped tally is what it is without such records, under each of the
\* configured options.
C17_AlwaysExcludedChangeNothing ==
    /\ [][ExcludedRecordChangesNothing]_vars
    /\ []UnmappedTallyWithoutExcluded

\* C17's case: the scan has read an always-excluded record that check_read
\* accepts, lying past the end of the region at the cursor, and the
\* unmapped tally has run over an always-excluded record.
C17_Witness ==
    /\ unmapped_pc = "done"
    /\ \E i \in 1 .. Len(Fetch(bam, "*")) : ExcludedByFlags(Fetch(bam, "*")[i])
    /\ \E c \in DOMAIN task :
          LET t  == task[c]
              rs == regions_map[c]
          IN  /\ t.pc = "ok"
              /\ ExcludedByFlags(t.read)
              /\ check_read(t.read, args) = "Accept"
              /\ t.current_region_index < Len(rs)
              /\ rs[t.current_region_index + 1].end <= t.read.pos

\* C18: in a scan, and in the unmapped tally with its derived options, the
\* accepted count is the number of decoded, not always-excluded records
\* check_read accepts, the rejected count the number it rejects, so the two
\* add up to the number of such records, overlapping a region or not.
C18_MappedTallyConservation ==
    /\ \A c \in DOMAIN task :
          task[c].pc \in {"running", "ok"} =>
              LET reads == Fetch(bam, c)
                  n     == task[c].nread
                  Acc(r) == Counted(r) /\ check_read(r, args) = "Accept"
                  Rej(r) == Counted(r) /\ check_read(r, args) = "Reject"
              IN  /\ task[c].all_reads_accepted = HowMany(reads, n, Acc)
                  /\ task[c].all_reads_rejected = HowMany(reads, n, Rej)
                  /\ task[c].all_reads_accepted + task[c].all_reads_rejected
                        = HowMany(reads, n, Counted)
    /\ unmapped_pc = "done" =>
          LET reads == Fetch(bam, "*")
              AccU(r) == Counted(r) /\ check_read(r, derive_unmapped_args(args)) = "Accept"
              RejU(r) == Counted(r) /\ check_read(r, derive_unmapped_args(args)) = "Reject"
          IN  /\ unmapped_reads.accepted = HowMany(reads, Len(reads), AccU)
              /\ unmapped_reads.rejected = HowMany(reads, Len(reads), RejU)
              /\ unmapped_reads.accepted + unmapped_reads.rejected
                    = HowMany(reads, Len(reads), Counted)

\* C18's case: the run has ended with a record in the mapped tally that is
\* not in the exon tally and a record in the unmapped tally.
C18_Witness ==
    /\ main_pc = "done"
    /\ all_reads.accepted + all_reads.rejected = 1
    /\ exon_reads.accepted + exon_reads.rejected = 0
    /\ unmapped_reads.accepted + unmapped_reads.rejected = 1

\* The records of reads that decoded.
Decoded(reads) == SelectSeq(reads, LAMBDA r : r.ok)

\* C19: a record that fails to decode ends neither the scan nor the run;
\* after any number of records the tallies and the cursor of a scan are
\* those of the scan of the decoded records alone, and the unmapped tally
\* is that of the decoded unmapped records.
C19_DecodeFailureSkipped ==
    /\ main_pc # "error"
    /\ \A c \in DOMAIN task :
          /\ task[c].pc # "err"
          /\ task[c].pc \in {"running", "ok"} =>
                LET clean == ScanAlone(Decoded(ScannedSoFar(c)), 1, count_reads_locals,
                                       regions_map[c], args)
                IN  /\ task[c].all_reads_accepted = clean.all_reads_accepted
                    /\ task[c].all_reads_rejected = clean.all_reads_rejected
                    /\ task[c].exon_reads_accepted = clean.exon_reads_accepted
                    /\ task[c].exon_reads_rejected = clean.exon_reads_rejected
                    /\ task[c].current_region_index = clean.current_region_index
    /\ unmapped_pc = "done" =>
          unmapped_reads = count_unmapped_loop(Decoded(Fetch(bam, "*")), 1,
                                               derive_unmapped_args(args), CountResult(0, 0))

\* C19's case: the first record of the stream failed to decode, and the
\* scan went on to count the next one in the mapped and the exon tally and
\* returned Ok.
C19_Witness ==
    \E c \in DOMAIN task :
        /\ task[c].pc = "ok"
        /\ Len(Fetch(bam, c)) = 2
        /\ ~Fetch(bam, c)[1].ok
        /\ Counted(Fetch(bam, c)[2])
        /\ task[c].all_reads_accepted + task[c].all_reads_rejected = 1
        /\ task[c].exon_reads_accepted + task[c].exon_reads_rejected = 1

\* C23: after every record of a scan its exon tallies do not exceed its
\* mapped tallies, accepted against accepted and rejected against rejected,
\* and the same holds of the totals count_mapped_reads returns.
C23_ExonWithinMapped ==
    /\ \A c \in DOMAIN task :
          /\ task[c].exon_reads_accepted <= task[c].all_reads_accepted
          /\ task[c].exon_reads_rejected <= task[c].all_reads_rejected
    /\ exon_reads.accepted <= all_reads.accepted
    /\ exon_reads.rejected <= all_reads.rejected

\* C23's case: count_mapped_reads has returned totals with a record counted
\* in the exon tally and another counted as mapped only.
C23_Witness ==
    /\ main_pc \in {"mapped", "done"}
    /\ exon_reads.accepted >= 1
    /\ all_reads.accepted > exon_reads.accepted
    /\ \E c \in DOMAIN task : task[c].exon_reads_accepted = exon_reads.accepted

=============================================================================
